---- MODULE Spec2Model ----
(***************************************************************************)
(* Model of chess-challenge.cpp: a KeyboardLayout (2D table of key chars   *)
(* plus an invalid key), a Knight (eight offsets and a legality test), a   *)
(* Keyboard that precomputes the valid moves per key and enumerates, by a  *)
(* breadth-first search from every valid key, the key sequences of a given *)
(* length holding at most a given number of vowels, and main, which prints *)
(* the total.                                                              *)
(*                                                                         *)
(* Coordinates are 0-based as in the code; a table is a sequence of rows,  *)
(* each a sequence of one-character strings.  A read of layout[x][y]       *)
(* outside the stored rows is undefined behaviour in the code: the model   *)
(* lets it end the process ("crashed") or yield a character of Garbage,    *)
(* chosen at the first such read and the same for the reads of one run.    *)
(***************************************************************************)
EXTENDS Integers, Sequences, FiniteSets, TLC

\* ------------------------------------------------------------ bounds
MaxLen == 3
MaxVowels == 3

\* ------------------------------------------------------------ helpers
Abs(n) == IF n < 0 THEN -n ELSE n

\* ------------------------------------------------------------ Knight
\* GetMoves without its last offset.
GetMovesSeven ==
    << <<-2, -1>>, <<-2, 1>>, <<-1, -2>>, <<-1, 2>>,
       <<1, -2>>, <<1, 2>>, <<2, -1>> >>

GetMoves ==
    << <<-2, -1>>, <<-2, 1>>, <<-1, -2>>, <<-1, 2>>,
       <<1, -2>>, <<1, 2>>, <<2, -1>>, <<2, 1>> >>

\* ------------------------------------------------------------ KeyboardLayout
GetRows(layout) == IF layout = <<>> THEN 0 ELSE Len(layout)

GetCols(layout) == IF layout = <<>> THEN 0 ELSE Len(layout[1])

\* Whether layout[x][y] names a stored element.
Stored(layout, x, y) ==
    /\ x >= 0 /\ x < Len(layout)
    /\ y >= 0 /\ y < Len(layout[x + 1])

\* layout[x][y]; g is what the read yields when the element is not stored.
At(layout, x, y, g) == IF Stored(layout, x, y) THEN layout[x + 1][y + 1] ELSE g

\* IsValidMove without the test of the destination key.
IsValidMoveOntoAnyKey(x, y, moveX, moveY, invalidKey, layout, g) ==
    LET ROWS == Len(layout)
        COLS == Len(layout[1])
        newX == x + moveX
        newY == y + moveY
    IN  /\ newX >= 0 /\ newX < ROWS
        /\ newY >= 0 /\ newY < COLS
        /\ \/ (1 = Abs(moveX) /\ 2 = Abs(moveY))
           \/ (2 = Abs(moveX) /\ 1 = Abs(moveY))

IsValidMove(x, y, moveX, moveY, invalidKey, layout, g) ==
    LET ROWS == Len(layout)
        COLS == Len(layout[1])
        newX == x + moveX
        newY == y + moveY
    IN  /\ newX >= 0 /\ newX < ROWS
        /\ newY >= 0 /\ newY < COLS
        /\ At(layout, newX, newY, g) # invalidKey
        /\ \/ (1 = Abs(moveX) /\ 2 = Abs(moveY))
           \/ (2 = Abs(moveX) /\ 1 = Abs(moveY))

LayoutRejected(newLayout) == newLayout = <<>> \/ newLayout[1] = <<>>

\* ------------------------------------------------------------ Keyboard
Vowels == {"A", "E", "I", "O", "U"}

\* IsVowel against a lower-case vowel string.
IsVowelLowerCase(key) == key \in {"a", "e", "i", "o", "u"}

IsVowel(key) == key \in Vowels

RECURSIVE CountVowels(_)
CountVowels(s) ==
    IF s = <<>> THEN 0
    ELSE (IF IsVowel(Head(s)) THEN 1 ELSE 0) + CountVowels(Tail(s))

\* unordered_map::insert: an existing key keeps its value.
MapInsert(m, k, v) == m @@ (k :> v)

EmptyMap == [c \in {} |-> <<>>]

MovesFrom(layout, invalidKey, i, j, g) ==
    SelectSeq(GetMoves,
              LAMBDA m : IsValidMove(i, j, m[1], m[2], invalidKey, layout, g))

\* The two nested loops of SetValidMovesForAllKeys, cell k = i * COLS + j on.
RECURSIVE SetValidMovesFrom(_, _, _, _, _)
SetValidMovesFrom(layout, invalidKey, g, k, km) ==
    LET ROWS == GetRows(layout)
        COLS == GetCols(layout)
        i == k \div COLS
        j == k % COLS
        key == At(layout, i, j, g)
    IN  IF k >= ROWS * COLS THEN km
        ELSE SetValidMovesFrom(layout, invalidKey, g, k + 1,
                 IF key # invalidKey
                 THEN MapInsert(km, key, MovesFrom(layout, invalidKey, i, j, g))
                 ELSE km)

SetValidMovesForAllKeys(layout, invalidKey, g) ==
    SetValidMovesFrom(layout, invalidKey, g, 0, EmptyMap)

\* SetValidMovesForAllKeys reads layout[i][j] for every i < ROWS, j < COLS.
BuildReadsOutside(layout) ==
    \E i \in 0..(GetRows(layout) - 1), j \in 0..(GetCols(layout) - 1) :
        ~Stored(layout, i, j)

\* The vowel test with >= for >.
ExceedsVowelLimitOffByOne(s, maxV) == CountVowels(s) >= maxV

\* The vowel test of GenerateSequences.
ExceedsVowelLimit(s, maxV) == CountVowels(s) > maxV

\* The length test with > for ==.
ReachedLengthLate(s, seqLen) == Len(s) > seqLen

\* The length test of GenerateSequences.
ReachedLength(s, seqLen) == Len(s) = seqLen

\* An assignment of the one sequence in place of push_back.
PushBackAssigns(m, k, s) == (k :> <<s>>) @@ m

\* sequences[key].push_back(seq): operator[] creates the key when absent.
PushBack(m, k, s) ==
    [c \in DOMAIN m \cup {k} |->
        IF c = k THEN (IF k \in DOMAIN m THEN Append(m[k], s) ELSE <<s>>)
        ELSE m[c]]

\* A push at the front of the queue (a stack, depth first).
EnqueueFront(queue, entries) == entries \o queue

\* q.push of the successors of one dequeued entry, in move order.
Enqueue(queue, entries) == queue \o entries

\* The body of "while (!q.empty())" in GenerateSequences, as a function of the
\* queue, the collected sequences and the configuration.  thrown is
\* "UnknownLabel" when keyMoves.at(key) finds no entry (std::out_of_range);
\* the queue and the map, locals of GenerateSequences, are then destroyed as
\* the exception leaves it.
WhileBody(queue, seqs, layout, invalidKey, km, seqLen, maxV, i, j, g) ==
    LET front == Head(queue)
        rest == Tail(queue)
        s == front.seq
        x == front.pos[1]
        y == front.pos[2]
        key == At(layout, x, y, g)
        moves == km[key]
        Next1(m) ==
            LET newX == x + moves[m][1]
                newY == y + moves[m][2]
            IN  [seq |-> Append(s, At(layout, newX, newY, g)),
                 pos |-> <<newX, newY>>]
    IN  IF ExceedsVowelLimit(s, maxV)
        THEN [q |-> rest, sequences |-> seqs, thrown |-> "none"]
        ELSE IF ReachedLength(s, seqLen)
        THEN [q |-> rest,
              sequences |-> PushBack(seqs, At(layout, i, j, g), s),
              thrown |-> "none"]
        ELSE IF key \notin DOMAIN km
        THEN [q |-> <<>>, sequences |-> EmptyMap, thrown |-> "UnknownLabel"]
        ELSE [q |-> Enqueue(rest, [m \in 1..Len(moves) |-> Next1(m)]),
              sequences |-> seqs,
              thrown |-> "none"]

\* Whether that iteration reads an element of layout that is not stored.
WhileReadsOutside(queue, layout, km, seqLen, maxV, i, j, g) ==
    LET front == Head(queue)
        s == front.seq
        x == front.pos[1]
        y == front.pos[2]
        key == At(layout, x, y, g)
    IN  /\ ~ExceedsVowelLimit(s, maxV)
        /\ IF ReachedLength(s, seqLen)
           THEN ~Stored(layout, i, j)
           ELSE \/ ~Stored(layout, x, y)
                \/ /\ key \in DOMAIN km
                   /\ \E m \in 1..Len(km[key]) :
                          ~Stored(layout, x + km[key][m][1], y + km[key][m][2])

\* The sum displayTotalSequences prints.
RECURSIVE SumSizes(_, _)
SumSizes(m, keys) ==
    IF keys = {} THEN 0
    ELSE LET k == CHOOSE c \in keys : TRUE
         IN  Len(m[k]) + SumSizes(m, keys \ {k})

TotalSequenceCount(seqs) == SumSizes(seqs, DOMAIN seqs)

\* GenerateSequences as a function of the configuration: the while loop run to
\* its end for one starting cell ...
RECURSIVE RunWhile(_, _, _, _, _, _, _, _, _, _)
RunWhile(queue, seqs, layout, invalidKey, km, seqLen, maxV, i, j, g) ==
    IF queue = <<>> THEN [sequences |-> seqs, thrown |-> "none"]
    ELSE LET r == WhileBody(queue, seqs, layout, invalidKey, km, seqLen, maxV,
                            i, j, g)
         IN  IF r.thrown # "none"
             THEN [sequences |-> r.sequences, thrown |-> r.thrown]
             ELSE RunWhile(r.q, r.sequences, layout, invalidKey, km, seqLen,
                           maxV, i, j, g)

\* ... and the two for loops over the starting cells, cell k = i * COLS + j on.
RECURSIVE RunCells(_, _, _, _, _, _, _, _)
RunCells(k, seqs, layout, invalidKey, km, seqLen, maxV, g) ==
    LET ROWS == GetRows(layout)
        COLS == GetCols(layout)
        i == k \div COLS
        j == k % COLS
        key == At(layout, i, j, g)
        r == RunWhile(<<[seq |-> <<key>>, pos |-> <<i, j>>]>>, seqs, layout,
                      invalidKey, km, seqLen, maxV, i, j, g)
    IN  IF k >= ROWS * COLS THEN [sequences |-> seqs, thrown |-> "none"]
        ELSE IF key = invalidKey
        THEN RunCells(k + 1, seqs, layout, invalidKey, km, seqLen, maxV, g)
        ELSE IF r.thrown # "none" THEN r
        ELSE RunCells(k + 1, r.sequences, layout, invalidKey, km, seqLen, maxV, g)

GenerateSequences(layout, invalidKey, km, seqLen, maxV, g) ==
    RunCells(0, EmptyMap, layout, invalidKey, km, seqLen, maxV, g)

\* What a Keyboard built on the layout displays as the total.
DisplayedTotal(layout, invalidKey, seqLen, maxV, g) ==
    TotalSequenceCount(
        GenerateSequences(layout, invalidKey,
                          SetValidMovesForAllKeys(layout, invalidKey, g),
                          seqLen, maxV, g).sequences)

\* ------------------------------------------------------------ inputs
NUL == "NUL"

Garbage == {"A", "Q", NUL}

Base3 == << <<"A", "B", "C">>, <<"D", "E", "F">>, <<"G", "H", "I">> >>

Cells3 == (0..2) \X (0..2)

\* Base3 with the cells of S blanked.
Masked(S) ==
    [r \in 1..3 |-> [c \in 1..3 |->
        IF <<r - 1, c - 1>> \in S THEN NUL ELSE Base3[r][c]]]

\* Base3 with cell p carrying the label of cell p2.
Relabelled(p, p2) ==
    [r \in 1..3 |-> [c \in 1..3 |->
        IF <<r - 1, c - 1>> = p THEN Base3[p2[1] + 1][p2[2] + 1] ELSE Base3[r][c]]]

Wide == << <<"A", "B", "C", "D">>, <<"X", "F", "G", "H">>, <<"I", "J", "K", "X">> >>

\* Two cells carry "B"; the moves of the first lead the second onto "X".
WideTwice == << <<"B", "B", "C", "D">>, <<"F", "G", "H", "X">>, <<"J", "K", "L", "M">> >>

Reference ==
    << <<"A", "B", "C", "D", "E">>,
       <<"F", "G", "H", "I", "J">>,
       <<"K", "L", "M", "N", "O">>,
       <<NUL, "1", "2", "3", NUL>> >>

Degenerate == { <<>>, << <<>> >>, << <<>>, <<"A", "B">> >> }

Ragged ==
    { << <<"A", "B", "C">>, <<"D", "E">>, <<"G", "H", "I">> >>,
      << <<"A", "B", "C">>, <<"D", "E", "F", "J">>, <<"G", "H", "I">> >>,
      << <<"A", "B", "C">>, <<>>, <<"G", "H", "I">> >>,
      << <<"A", "B", "C">>, <<"D", "E", "F">>, <<"G">> >> }

Configs ==
    [invalidKey : {NUL},
     layout : Degenerate \cup Ragged \cup {Reference}
              \cup {Masked(S) : S \in SUBSET Cells3}
              \cup {Relabelled(p, p2) : p \in Cells3, p2 \in Cells3}]
    \cup [invalidKey : {"X"}, layout : {Wide, WideTwice}]

\* ------------------------------------------------------------ state
VARIABLES
    pc,             \* where main is
    newLayout,      \* the table main passes to KeyboardLayout
    invalidKey,     \* KeyboardLayout::invalidKey
    sequenceLength, \* Keyboard::sequenceLength
    maxVowelCount,  \* Keyboard::maxVowelCount
    keyMoves,       \* Keyboard::keyMoves
    i, j,           \* the starting cell GenerateSequences is at
    q,              \* the queue of the current starting cell
    seq,            \* the sequence dequeued last for this starting cell
    sequences,      \* GenerateSequences' result map
    thrown,         \* the exception raised, "none" when none
    stdout,         \* the totals printed
    exitStatus,     \* what main returned, "running" before it returns
    beyond,         \* what a read outside the stored table yields in this run
    level,          \* the queue in counted form (RefSpec only)
    levelLen,       \* the length of the sequences level counts (RefSpec only)
    tally           \* sequences in counted form: key -> size (RefSpec only)

vars == <<pc, newLayout, invalidKey, sequenceLength, maxVowelCount, keyMoves,
          i, j, q, seq, sequences, thrown, stdout, exitStatus, beyond,
          level, levelLen, tally>>

config == <<newLayout, invalidKey, sequenceLength, maxVowelCount>>

counted == <<level, levelLen, tally>>

literal == <<q, seq, sequences>>

\* What a read outside the stored table may yield now.
Beyond == IF beyond = "unread" THEN Garbage ELSE {beyond}

\* The configurations the termination check runs over.
FairConfigs ==
    [invalidKey : {NUL},
     layout : Degenerate \cup Ragged \cup {Reference}
              \cup {Masked(S) : S \in {T \in SUBSET Cells3 : Cardinality(T) <= 1}}
              \cup {Relabelled(p, <<0, 0>>) : p \in Cells3}]
    \cup [invalidKey : {"X"}, layout : {Wide, WideTwice}]

InitWith(C, lengths, caps) ==
    /\ pc = "main"
    /\ \E c \in C : newLayout = c.layout /\ invalidKey = c.invalidKey
    /\ sequenceLength \in lengths
    /\ maxVowelCount \in caps
    /\ keyMoves = EmptyMap
    /\ i = 0 /\ j = 0
    /\ q = <<>>
    /\ seq = <<>>
    /\ sequences = EmptyMap
    /\ thrown = "none"
    /\ stdout = <<>>
    /\ exitStatus = "running"
    /\ beyond = "unread"
    /\ level = EmptyMap
    /\ levelLen = 0
    /\ tally = EmptyMap

Init == InitWith(Configs, 0..MaxLen, 0..MaxVowels)

\* KeyboardLayout keyboardLayout(invalidKey, layout);
ConstructLayout ==
    /\ pc = "main"
    /\ IF LayoutRejected(newLayout)
       THEN pc' = "failed" /\ thrown' = "InvalidLayout"
            /\ exitStatus' = "EXIT_FAILURE"
       ELSE pc' = "layout" /\ thrown' = thrown /\ exitStatus' = exitStatus
    /\ UNCHANGED <<counted, config, keyMoves, i, j, q, seq, sequences, stdout, beyond>>

\* ConstructKeyboard with the length test placed after SetValidMovesForAllKeys.
ConstructKeyboardBuildsFirst ==
    /\ pc = "layout"
    /\ \E g \in Beyond :
           /\ keyMoves' = SetValidMovesForAllKeys(newLayout, invalidKey, g)
           /\ beyond' = IF BuildReadsOutside(newLayout) THEN g ELSE beyond
    /\ IF 0 = sequenceLength
       THEN /\ pc' = "failed" /\ thrown' = "InvalidConfiguration"
            /\ exitStatus' = "EXIT_FAILURE"
       ELSE /\ pc' = "scan" /\ thrown' = thrown /\ exitStatus' = exitStatus
    /\ UNCHANGED <<counted, config, i, j, q, seq, sequences, stdout>>

\* Keyboard keyboard(sequenceLength, maxVowelCount, keyboardLayout, &knight);
\* followed by the entry into displayTotalSequences / GenerateSequences.
ConstructKeyboard ==
    /\ pc = "layout"
    /\ IF 0 = sequenceLength
       THEN /\ pc' = "failed" /\ thrown' = "InvalidConfiguration"
            /\ exitStatus' = "EXIT_FAILURE"
            /\ keyMoves' = keyMoves /\ beyond' = beyond
       ELSE /\ pc' = "scan" /\ thrown' = thrown /\ exitStatus' = exitStatus
            /\ \E g \in Beyond :
                   /\ keyMoves' = SetValidMovesForAllKeys(newLayout, invalidKey, g)
                   /\ beyond' = IF BuildReadsOutside(newLayout) THEN g ELSE beyond
    /\ UNCHANGED <<counted, config, i, j, q, seq, sequences, stdout>>

\* One pass of the two for loops: the test of layout[i][j], and either the push
\* of the starting sequence or the step to the next cell.
ScanCell ==
    /\ pc = "scan"
    /\ i < GetRows(newLayout)
    /\ \E g \in Beyond :
          LET key == At(newLayout, i, j, g)
          IN  /\ beyond' = IF Stored(newLayout, i, j) THEN beyond ELSE g
              /\ IF key # invalidKey
                 THEN /\ q' = <<[seq |-> <<key>>, pos |-> <<i, j>>]>>
                      /\ pc' = "bfs"
                      /\ UNCHANGED <<i, j>>
                 ELSE /\ q' = q
                      /\ pc' = pc
                      /\ IF j + 1 < GetCols(newLayout)
                         THEN i' = i /\ j' = j + 1
                         ELSE i' = i + 1 /\ j' = 0
    /\ seq' = <<>>
    /\ UNCHANGED <<counted, config, keyMoves, sequences, thrown, stdout, exitStatus>>

\* One iteration of the while loop.
WhileIteration ==
    /\ pc = "bfs"
    /\ q # <<>>
    /\ \E g \in Beyond :
          LET r == WhileBody(q, sequences, newLayout, invalidKey, keyMoves,
                             sequenceLength, maxVowelCount, i, j, g)
          IN  /\ q' = r.q
              /\ sequences' = r.sequences
              /\ thrown' = r.thrown
              /\ pc' = IF r.thrown = "none" THEN pc ELSE "failed"
              /\ exitStatus' =
                     IF r.thrown = "none" THEN exitStatus ELSE "EXIT_FAILURE"
              /\ beyond' =
                     IF WhileReadsOutside(q, newLayout, keyMoves, sequenceLength,
                                          maxVowelCount, i, j, g)
                     THEN g ELSE beyond
    /\ seq' = Head(q).seq
    /\ UNCHANGED <<counted, config, keyMoves, i, j, stdout>>

\* The while loop ends on an empty queue; the for loops step to the next cell.
EndWhile ==
    /\ pc = "bfs"
    /\ q = <<>>
    /\ pc' = "scan"
    /\ IF j + 1 < GetCols(newLayout)
       THEN i' = i /\ j' = j + 1
       ELSE i' = i + 1 /\ j' = 0
    /\ UNCHANGED <<counted, config, keyMoves, q, seq, sequences, thrown, stdout, exitStatus,
                   beyond>>

\* GenerateSequences returns; displayTotalSequences prints the total and main
\* returns EXIT_SUCCESS.
DisplayTotal ==
    /\ pc = "scan"
    /\ i >= GetRows(newLayout)
    /\ stdout' = Append(stdout, TotalSequenceCount(sequences))
    /\ pc' = "done"
    /\ exitStatus' = "EXIT_SUCCESS"
    /\ UNCHANGED <<counted, config, keyMoves, i, j, q, seq, sequences, thrown, beyond>>

\* A read outside the stored table may end the process instead of yielding a
\* character.
Crash ==
    /\ \/ pc = "layout" /\ 0 # sequenceLength /\ BuildReadsOutside(newLayout)
       \/ pc = "scan" /\ i < GetRows(newLayout) /\ ~Stored(newLayout, i, j)
       \/ /\ pc = "bfs" /\ q # <<>>
          /\ \E g \in Beyond :
                 WhileReadsOutside(q, newLayout, keyMoves, sequenceLength,
                                   maxVowelCount, i, j, g)
    /\ pc' = "crashed"
    /\ exitStatus' = "killed"
    /\ UNCHANGED <<counted, config, keyMoves, i, j, q, seq, sequences, thrown, stdout,
                   beyond>>

Next ==
    \/ ConstructLayout
    \/ ConstructKeyboard
    \/ ScanCell
    \/ WhileIteration
    \/ EndWhile
    \/ DisplayTotal
    \/ Crash

Spec == Init /\ [][Next]_vars

\* main runs on one thread with nothing to wait for: a step that can be taken
\* is taken.
FairSpec == InitWith(FairConfigs, 0..MaxLen, 0..MaxVowels) /\ [][Next]_vars /\ WF_vars(Next)

\* ------------------------------------------------------------ vocabulary
Rectangular(layout) ==
    /\ layout # <<>>
    /\ \A r \in 1..Len(layout) : Len(layout[r]) = Len(layout[1])
    /\ Len(layout[1]) > 0

StoredCells(layout) ==
    UNION {{<<r - 1, c - 1>> : c \in 1..Len(layout[r])} : r \in 1..Len(layout)}

LabelAt(layout, c) == layout[c[1] + 1][c[2] + 1]

ValidCells(layout, inv) == {c \in StoredCells(layout) : LabelAt(layout, c) # inv}

DistinctLabels(layout, inv) ==
    \A c, d \in ValidCells(layout, inv) :
        c # d => LabelAt(layout, c) # LabelAt(layout, d)

\* ------------------------------------------------------------ counted form
(* The reference run of main collects about a million sequences, so its    *)
(* queue is kept here in counted form: what an iteration of the while loop *)
(* does with a dequeued entry depends only on the entry's length, its last *)
(* cell and its number of vowels, and the queue holds the entries of one   *)
(* length before those of the next.  level[<<c, v>>] is the number of      *)
(* queued sequences of length levelLen that end on cell c and hold v       *)
(* vowels; one LevelStep is the iterations of the while loop over all of   *)
(* them.  CountedFormAgrees ties the counted form to the literal queue.    *)
RefSequenceLength == 10

RefMaxVowelCount == 2

RECURSIVE SumOver(_, _)
SumOver(f, S) ==
    IF S = {} THEN 0
    ELSE LET x == CHOOSE y \in S : TRUE
         IN  f[x] + SumOver(f, S \ {x})

CountedDomain(layout, inv, maxV) == ValidCells(layout, inv) \X (0..(maxV + 1))

Normal(f) == IF \A x \in DOMAIN f : f[x] = 0 THEN EmptyMap ELSE f

\* The queue after q.push of the starting sequence of cell c.
InitialLevel(layout, inv, maxV, c) ==
    [x \in CountedDomain(layout, inv, maxV) |->
        IF x = <<c, CountVowels(<<LabelAt(layout, c)>>)>> THEN 1 ELSE 0]

\* The number of moves of cell c's key that lead from c onto d.
MovesOnto(layout, km, c, d) ==
    LET moves == km[LabelAt(layout, c)]
    IN  Cardinality({m \in 1..Len(moves) :
                        <<c[1] + moves[m][1], c[2] + moves[m][2]>> = d})

\* The queued entries that pass the vowel test.
WithinLimit(lv, maxV) == {x \in DOMAIN lv : ~(x[2] > maxV)}

\* The entries the iterations over lv push: one per entry within the limit
\* and move of its last key.
NextLevel(lv, layout, inv, km, maxV) ==
    Normal([x \in CountedDomain(layout, inv, maxV) |->
        LET d == x[1]
            u == x[2] - CountVowels(<<LabelAt(layout, d)>>)
        IN  IF u < 0 \/ u > maxV THEN 0
            ELSE SumOver([c \in ValidCells(layout, inv) |->
                             lv[<<c, u>>] * MovesOnto(layout, km, c, d)],
                         ValidCells(layout, inv))])

\* The sequences one starting cell contributes, from level lv of length len on.
RECURSIVE CountedRun(_, _, _, _, _, _, _)
CountedRun(lv, len, layout, inv, km, seqLen, maxV) ==
    IF lv = EmptyMap THEN 0
    ELSE IF len = seqLen THEN SumOver(lv, WithinLimit(lv, maxV))
    ELSE CountedRun(NextLevel(lv, layout, inv, km, maxV), len + 1,
                    layout, inv, km, seqLen, maxV)

CountedTotal(layout, inv, km, seqLen, maxV) ==
    SumOver([c \in ValidCells(layout, inv) |->
                CountedRun(InitialLevel(layout, inv, maxV, c), 1,
                           layout, inv, km, seqLen, maxV)],
            ValidCells(layout, inv))

InitRef ==
    InitWith({[invalidKey |-> NUL, layout |-> Reference]},
             {RefSequenceLength}, {RefMaxVowelCount})

ScanCellCounted ==
    /\ pc = "scan"
    /\ i < GetRows(newLayout)
    /\ IF At(newLayout, i, j, NUL) # invalidKey
       THEN /\ level' = InitialLevel(newLayout, invalidKey, maxVowelCount, <<i, j>>)
            /\ levelLen' = 1
            /\ pc' = "bfs"
            /\ UNCHANGED <<i, j>>
       ELSE /\ UNCHANGED <<level, levelLen, pc>>
            /\ IF j + 1 < GetCols(newLayout)
               THEN i' = i /\ j' = j + 1
               ELSE i' = i + 1 /\ j' = 0
    /\ UNCHANGED <<literal, config, keyMoves, tally, thrown, stdout, exitStatus, beyond>>

\* The iterations of the while loop over the queued sequences of one length.
LevelStep ==
    /\ pc = "bfs"
    /\ level # EmptyMap
    /\ IF levelLen = sequenceLength
       THEN /\ level' = EmptyMap
            /\ levelLen' = levelLen
            /\ tally' = LET n == SumOver(level, WithinLimit(level, maxVowelCount))
                             key == At(newLayout, i, j, NUL)
                         IN  IF n = 0 THEN tally
                             ELSE (key :> (IF key \in DOMAIN tally
                                           THEN tally[key] + n ELSE n)) @@ tally
       ELSE /\ level' = NextLevel(level, newLayout, invalidKey, keyMoves,
                                  maxVowelCount)
            /\ levelLen' = levelLen + 1
            /\ tally' = tally
    /\ UNCHANGED <<literal, config, keyMoves, i, j, pc, thrown, stdout, exitStatus,
                   beyond>>

EndWhileCounted ==
    /\ pc = "bfs"
    /\ level = EmptyMap
    /\ pc' = "scan"
    /\ IF j + 1 < GetCols(newLayout)
       THEN i' = i /\ j' = j + 1
       ELSE i' = i + 1 /\ j' = 0
    /\ UNCHANGED <<literal, counted, config, keyMoves, thrown, stdout, exitStatus,
                   beyond>>

DisplayTotalCounted ==
    /\ pc = "scan"
    /\ i >= GetRows(newLayout)
    /\ stdout' = Append(stdout, SumOver(tally, DOMAIN tally))
    /\ pc' = "done"
    /\ exitStatus' = "EXIT_SUCCESS"
    /\ UNCHANGED <<literal, counted, config, keyMoves, i, j, thrown, beyond>>

NextRef ==
    \/ ConstructLayout
    \/ ConstructKeyboard
    \/ ScanCellCounted
    \/ LevelStep
    \/ EndWhileCounted
    \/ DisplayTotalCounted

RefSpec == InitRef /\ [][NextRef]_vars

\* ------------------------------------------------------------ C1
(* The counted form gives the total the literal queue gives.               *)
CountedFormAgrees ==
    (pc = "done" /\ Rectangular(newLayout) /\ DistinctLabels(newLayout, invalidKey)) =>
        stdout = <<CountedTotal(newLayout, invalidKey, keyMoves, sequenceLength,
                                maxVowelCount)>>

(* C1: for the reference configuration (the 4x5 layout of main with the two *)
(* bottom corners invalid, the eight knight offsets, sequenceLength 10,     *)
(* maxVowels 2) the total displayed is 1013398.                             *)
C1_ReferenceTotal ==
    pc = "done" => (stdout = <<1013398>> /\ exitStatus = "EXIT_SUCCESS")

C1_Witness ==
    /\ pc = "done"
    /\ newLayout = Reference /\ invalidKey = NUL
    /\ sequenceLength = 10 /\ maxVowelCount = 2
    /\ Len(stdout) = 1
    /\ DOMAIN tally = {LabelAt(newLayout, c) : c \in ValidCells(newLayout, invalidKey)}

\* ------------------------------------------------------------ C2
(* C2: Grid construction fails with InvalidLayout whenever the table is    *)
(* empty, has a zero-length row, or has a row whose length differs from    *)
(* the first row's; for a non-rectangular table no layout object, move     *)
(* table or enumeration ever exists.                                       *)
C2_NonRectangularRejected ==
    (pc # "main" /\ ~Rectangular(newLayout)) =>
        /\ pc = "failed"
        /\ thrown = "InvalidLayout"
        /\ keyMoves = EmptyMap
        /\ q = <<>>
        /\ sequences = EmptyMap

\* ------------------------------------------------------------ C3
(* C3: with sequenceLength = 0 the Keyboard constructor raises             *)
(* InvalidConfiguration before the move table is built and before any      *)
(* enumeration step; main ends with EXIT_FAILURE and prints no count.      *)
C3_ZeroLengthRejected ==
    (sequenceLength = 0 /\ pc \notin {"main", "layout"}) =>
        /\ pc = "failed"
        /\ exitStatus = "EXIT_FAILURE"
        /\ thrown = IF LayoutRejected(newLayout)
                    THEN "InvalidLayout" ELSE "InvalidConfiguration"
        /\ keyMoves = EmptyMap
        /\ q = <<>> /\ seq = <<>> /\ sequences = EmptyMap
        /\ stdout = <<>>
        /\ ~ENABLED Next

C3_Witness ==
    /\ sequenceLength = 0
    /\ pc = "failed"
    /\ thrown = "InvalidConfiguration"
    /\ Rectangular(newLayout)

\* ------------------------------------------------------------ C4
NonVowelCells(layout, inv) ==
    {c \in ValidCells(layout, inv) :
        LabelAt(layout, c) \notin {"A", "E", "I", "O", "U"}}

(* C4 as stated: for sequenceLength = 1 and every maxVowels >= 0 the       *)
(* printed count is the number of valid cells of the grid.                 *)
C4_SingleKeyCountsEveryValidCell ==
    (pc = "done" /\ sequenceLength = 1 /\ Rectangular(newLayout)) =>
        stdout = <<Cardinality(ValidCells(newLayout, invalidKey))>>

(* C4 amended: for sequenceLength = 1 the printed count is the number of   *)
(* valid cells when maxVowels >= 1, and the number of valid cells whose    *)
(* label is not a vowel when maxVowels = 0.                                *)
C4_SingleKeyCount ==
    (pc = "done" /\ sequenceLength = 1 /\ Rectangular(newLayout)) =>
        stdout = << IF maxVowelCount >= 1
                    THEN Cardinality(ValidCells(newLayout, invalidKey))
                    ELSE Cardinality(NonVowelCells(newLayout, invalidKey)) >>

C4_Witness ==
    /\ pc = "done" /\ sequenceLength = 1 /\ Rectangular(newLayout)
    /\ maxVowelCount = 1
    /\ NonVowelCells(newLayout, invalidKey) # ValidCells(newLayout, invalidKey)
    /\ stdout = <<Cardinality(ValidCells(newLayout, invalidKey))>>

\* ------------------------------------------------------------ C8
(* C8: for every rectangular grid the layout constructor accepts and every *)
(* sequenceLength >= 1 the enumeration raises no error: every queued       *)
(* sequence's last cell is a stored, valid cell, no read leaves the table  *)
(* and no move-table lookup misses (UnknownLabel).                         *)
C8_EnumerationRaisesNoError ==
    (Rectangular(newLayout) /\ sequenceLength >= 1) =>
        /\ thrown # "UnknownLabel"
        /\ pc # "crashed"
        /\ \A k \in 1..Len(q) :
               /\ Stored(newLayout, q[k].pos[1], q[k].pos[2])
               /\ LabelAt(newLayout, q[k].pos) # invalidKey

\* ------------------------------------------------------------ C9
\* The offsets that lead from cell c onto a stored, valid cell by an L shape.
LegalOffsets(layout, inv, c) ==
    SelectSeq(GetMoves,
              LAMBDA o :
                  /\ <<c[1] + o[1], c[2] + o[2]>> \in ValidCells(layout, inv)
                  /\ {Abs(o[1]), Abs(o[2])} = {1, 2})

TableBuilt == pc \in {"scan", "bfs", "done"}

TableMatchesGrid ==
    /\ DOMAIN keyMoves =
           {LabelAt(newLayout, c) : c \in ValidCells(newLayout, invalidKey)}
    /\ invalidKey \notin DOMAIN keyMoves
    /\ \A c \in ValidCells(newLayout, invalidKey) :
           keyMoves[LabelAt(newLayout, c)] = LegalOffsets(newLayout, invalidKey, c)

(* C9: once the move table is built from a rectangular grid with pairwise  *)
(* distinct labels, the entry of every valid cell's label is the sub-list  *)
(* of the knight offsets, in GetMoves order, whose destination is inside   *)
(* the grid, not the invalid key and an L shape away; the invalid key has  *)
(* no entry; and no step after the construction changes the table.         *)
C9_MoveTable ==
    [][/\ (pc = "layout" /\ TableBuilt' /\ Rectangular(newLayout)
              /\ DistinctLabels(newLayout, invalidKey)) => TableMatchesGrid'
       /\ pc \notin {"main", "layout"} => keyMoves' = keyMoves]_vars

C9_Witness ==
    /\ pc = "bfs" /\ Len(q) > 1
    /\ newLayout = Reference
    /\ keyMoves["M"] = << <<-2, -1>>, <<-2, 1>>, <<-1, -2>>, <<-1, 2>> >>
    /\ keyMoves["A"] = << <<1, 2>>, <<2, 1>> >>

\* ------------------------------------------------------------ C6
\* Cell d is an L shape away from cell c.
KnightStep(c, d) == {Abs(d[1] - c[1]), Abs(d[2] - c[2])} = {1, 2}

\* The walks of n valid cells in which every next cell is a knight step away.
RECURSIVE KnightWalks(_, _, _)
KnightWalks(layout, inv, n) ==
    IF n = 1 THEN {<<c>> : c \in ValidCells(layout, inv)}
    ELSE UNION {{Append(w, d) :
                    d \in {e \in ValidCells(layout, inv) : KnightStep(w[n - 1], e)}} :
                w \in KnightWalks(layout, inv, n - 1)}

LabelsOf(layout, w) == [k \in 1..Len(w) |-> LabelAt(layout, w[k])]

VowelsIn(s) == Cardinality({k \in 1..Len(s) : s[k] \in {"A", "E", "I", "O", "U"}})

QualifyingSequences(layout, inv, n, maxV) ==
    {s \in {LabelsOf(layout, w) : w \in KnightWalks(layout, inv, n)} :
        VowelsIn(s) <= maxV}

Range(f) == {f[k] : k \in DOMAIN f}

(* C6: on a rectangular grid with pairwise distinct labels the sequences   *)
(* collected are exactly the label strings of length sequenceLength that   *)
(* start at a valid cell, move by knight steps inside the grid onto valid  *)
(* cells (keys may repeat) and hold at most maxVowels vowels; each is      *)
(* collected once, under its first key, and the printed total is the size  *)
(* of that set.                                                            *)
C6_CollectedAreTheQualifyingSequences ==
    (pc = "done" /\ Rectangular(newLayout) /\ DistinctLabels(newLayout, invalidKey)) =>
        LET want == QualifyingSequences(newLayout, invalidKey, sequenceLength,
                                        maxVowelCount)
        IN  /\ UNION {Range(sequences[k]) : k \in DOMAIN sequences} = want
            /\ \A k \in DOMAIN sequences :
                   /\ Cardinality(Range(sequences[k])) = Len(sequences[k])
                   /\ \A n \in 1..Len(sequences[k]) : sequences[k][n][1] = k
            /\ stdout = <<Cardinality(want)>>

C6_Witness ==
    /\ pc = "done" /\ newLayout = Reference
    /\ sequenceLength = 3 /\ maxVowelCount = 1
    /\ <<"A", "H", "K">> \in Range(sequences["A"])
    /\ <<"B", "K", "B">> \in Range(sequences["B"])
    /\ <<"A", "H", "A">> \notin Range(sequences["A"])
    /\ stdout[1] < Cardinality(KnightWalks(newLayout, invalidKey, 3))

\* ------------------------------------------------------------ C10
LevelOrdered ==
    /\ pc \in {"main", "layout", "scan", "done"} => q = <<>>
    /\ \A a, b \in 1..Len(q) :
           /\ a < b => Len(q[a].seq) <= Len(q[b].seq)
           /\ Len(q[b].seq) - Len(q[a].seq) \in {-1, 0, 1}
           /\ q[a].seq[1] = q[b].seq[1]
    /\ \A a \in 1..Len(q) : seq # <<>> =>
           /\ Len(seq) <= Len(q[a].seq)
           /\ seq[1] = q[a].seq[1]

(* C10: within one starting cell's traversal sequences are dequeued in     *)
(* non-decreasing length, every queued sequence is at least as long as     *)
(* every sequence dequeued before it, the queued lengths take at most two  *)
(* consecutive values, and the queue holds sequences of one starting cell  *)
(* only: it is empty whenever the scan moves to another cell.              *)
C10_LevelOrder ==
    [][/\ LevelOrdered
       /\ LevelOrdered'
       /\ (pc = "bfs" /\ seq # <<>>) => Len(seq') >= Len(seq)
       /\ <<i, j>>' # <<i, j>> => (q = <<>> /\ q' = <<>>)]_vars

C10_Witness ==
    /\ pc = "bfs" /\ newLayout = Reference
    /\ Len(seq) = 2
    /\ Len(q) >= 4
    /\ Len(q[1].seq) = 2
    /\ Len(q[Len(q)].seq) = 3

\* ------------------------------------------------------------ C5
\* The total the program displays for this grid and length under cap maxV.
CountWith(maxV) ==
    DisplayedTotal(newLayout, invalidKey, sequenceLength, maxV, NUL)

Settled ==
    pc = "done" /\ Rectangular(newLayout) /\ DistinctLabels(newLayout, invalidKey)

Ended == pc \in {"done", "failed", "crashed"}

\* What one step does to the queue: the entries behind the head stay, and
\* what is appended extends the head's sequence by one label; nothing is
\* appended for a head of full length or over the vowel cap.
QueueStep ==
    (pc = "bfs" /\ q # <<>> /\ pc' = "bfs") =>
        LET h == Head(q).seq
        IN  /\ Len(q') >= Len(q) - 1
            /\ SubSeq(q', 1, Len(q) - 1) = Tail(q)
            /\ \A k \in Len(q)..Len(q') :
                   /\ Len(q'[k].seq) = Len(h) + 1
                   /\ SubSeq(q'[k].seq, 1, Len(h)) = h
            /\ (Len(h) >= sequenceLength \/ VowelsIn(h) > maxVowelCount) =>
                   Len(q') = Len(q) - 1

(* C7: for every configuration with sequenceLength >= 1 the enumeration    *)
(* ends: every enqueued sequence is one label longer than the one it       *)
(* extends, a sequence of full length or over the vowel cap is never       *)
(* extended, no queued sequence is longer than sequenceLength, each        *)
(* starting cell's queue becomes empty (unless the process is killed at a  *)
(* read outside the table), and main returns.                              *)
C7_EnumerationTerminates ==
    /\ [][/\ QueueStep
          /\ \A k \in 1..Len(q) : Len(q[k].seq) <= sequenceLength
          /\ \A k \in 1..Len(q') : Len(q'[k].seq) <= sequenceLength]_vars
    /\ (pc = "bfs") ~> (q = <<>> \/ pc = "crashed")
    /\ <>Ended

C7_Witness ==
    /\ pc = "done" /\ newLayout = Reference
    /\ sequenceLength = 3 /\ maxVowelCount = 0
    /\ q = <<>>
    /\ stdout[1] > 0

====
